---- MODULE Spec2Model ----
(***************************************************************************)
(* ESP32 water monitor firmware: src/src/main.cpp (serial-only variant,    *)
(* continues when the MPU6050 is missing) and src/backup/main_with_ble.cpp *)
(* (BLE variant, halts when the MPU6050 is missing).                       *)
(*                                                                         *)
(* Fixed-point representation of the firmware's floats:                    *)
(*   tds          tenths of a ppm          (300.0 ppm  = 3000)             *)
(*   vibration    cm/s^2                   (1.5 m/s^2  = 150)              *)
(*   temperature  tenths of a degree C     (22.0 C     = 220)              *)
(*   pH, turbidity  hundredths             (7.0        = 700)              *)
(*   voltages     millivolts               (3.3 V      = 3300)             *)
(* Divisions truncate to that resolution.                                  *)
(*                                                                         *)
(* Time: the clock advances in delay() only, by the delay's length; the    *)
(* statements between two delays take no time.                             *)
(*                                                                         *)
(* BLE: the stack is the environment.  A central can connect while the     *)
(* server advertises, which ends the advertising; after a disconnect the   *)
(* server advertises again only when the program calls startAdvertising(), *)
(* which is what the reconnection block of loop() is for.  The stack calls *)
(* onConnect / onDisconnect from its own task, between any two steps of    *)
(* the main task.                                                          *)
(***************************************************************************)
EXTENDS Integers, Sequences, FiniteSets, TLC

VARIABLES
    variant,            \* "ble" = backup/main_with_ble.cpp, "serial" = src/main.cpp
    pc,                 \* position of the Arduino main task (setup, then loop)
    i,                  \* loop counter of the error flash in setup
    millis,             \* the millisecond clock read by millis()
    mpuOk,              \* result of the last mpu.begin()
    lastReading,
    sinceLast,          \* real time in ms since lastReading was set (since boot before that)
    pH, temperature, tds, turbidity, vibration, vibrationDetected, waterStatus,
    ledGreen, ledYellow, ledRed,          \* pin levels, 0 = LOW, 1 = HIGH
    deviceConnected, oldDeviceConnected,
    bleState,           \* BLE stack: "off", "advertising", "connected", "idle"
    waterData           \* the String waterData of loop(): <<>> outside its block

vars == <<variant, pc, i, millis, mpuOk, lastReading, sinceLast,
          pH, temperature, tds, turbidity, vibration, vibrationDetected, waterStatus,
          ledGreen, ledYellow, ledRed, deviceConnected, oldDeviceConnected, bleState,
          waterData>>

readingVars == <<pH, temperature, tds, turbidity, vibration, vibrationDetected, waterStatus>>
ledVars == <<ledGreen, ledYellow, ledRed>>
bleVars == <<deviceConnected, oldDeviceConnected, bleState>>

(***************************************************************************)
(* Bounds and input samples.                                               *)
(***************************************************************************)
\* The clock is an unsigned long that wraps modulo 2^32 ms.  The model keeps
\* the modular arithmetic and shortens the wrap period to WrapSeconds seconds
\* so that the wrap is reached.
WrapSeconds == 8
ClockMod == WrapSeconds * 1000

\* ADC samples handed back by analogRead(TDS_PIN): one per class of the
\* assessment (<= 300, (300,400], (400,500), >= 500) and the full-scale
\* sample, whose TDS exceeds the 2000 ppm clamp.
AdcSamples == {1010, 1347, 1500, 1650, 4095}

\* Sensor events handed back by mpu.getEvent: acceleration in cm/s^2 and the
\* die temperature in tenths of a degree: at rest, shaken, and decelerating.
EventAtRest == [ax |-> 0, ay |-> 0, az |-> 980, temp |-> 250]
EventShaken == [ax |-> 0, ay |-> 0, az |-> 1200, temp |-> 310]
EventDecelerating == [ax |-> 0, ay |-> 0, az |-> 800, temp |-> 198]
MpuEvents == {EventAtRest, EventShaken, EventDecelerating}

\* random(lo, hi) returns a value in lo .. hi-1; the model draws the extremes.
RandomSamples(lo, hi) == {lo, hi - 1}

\* Narrower samples for the specification with fairness, whose properties
\* are about scheduling and do not depend on the sensor values.
LiveAdcSamples == {1010, 1500}
LiveMpuEvents == {EventAtRest, EventShaken}
LiveJitter == {0}

(***************************************************************************)
(* Program constants.                                                      *)
(***************************************************************************)
VREF == 3300
ADC_RES == 4095
sensorTemperature == 250
TDSCLEAN_THRESHOLD == 3000
TDSDIRTY_THRESHOLD == 4000
TDSXTREME_THRESHOLD == 5000
VIB_THRESHOLD == 150

Statuses == {"clean", "unsafe", "extremely_unsafe", "vibration_detected", "unknown"}

(***************************************************************************)
(* Pure helpers.                                                           *)
(***************************************************************************)
\* Arduino's constrain(x, lo, hi).
Constrain(x, lo, hi) == IF x < lo THEN lo ELSE IF x > hi THEN hi ELSE x

\* Arduino's abs(x).
Abs(x) == IF x > 0 THEN x ELSE -x

RECURSIVE SqrtSearch(_, _, _)
SqrtSearch(n, lo, hi) ==
    IF lo >= hi THEN lo
    ELSE LET mid == (lo + hi + 1) \div 2
         IN  IF mid * mid <= n THEN SqrtSearch(n, mid, hi)
                               ELSE SqrtSearch(n, lo, mid - 1)

\* sqrt(n), truncated.
Sqrt(n) == SqrtSearch(n, 0, 20000)

\* sin(x) for x >= 0 in milliradians, result in thousandths (Bhaskara's
\* approximation on each half period).
SinMilli(x) ==
    LET y == x % 6283
        h == IF y < 3142 THEN y ELSE y - 3142
        p == h * (3142 - h)
        s == (16 * p) \div ((5 * 3142 * 3142 - 4 * p) \div 1000)
    IN  IF y < 3142 THEN s ELSE -s

\* Mutation: the TDS conversion without its constrain().
TdsOfUnclamped(adcValue) ==
    LET voltage == (adcValue * VREF) \div ADC_RES
        compensation == 1000 + 2 * (sensorTemperature - 250)
        vComp == (voltage * 1000) \div compensation
        v2 == (vComp * vComp) \div 1000
        v3 == (v2 * vComp) \div 1000
    IN  (13342 * v3 - 25586 * v2 + 85739 * vComp) \div 20000

\* The TDS conversion of updateWaterQualityReadings(): ADC sample to tenths
\* of a ppm, clamped to [0, 2000] ppm.
TdsOf(adcValue) ==
    LET voltage == (adcValue * VREF) \div ADC_RES
        compensation == 1000 + 2 * (sensorTemperature - 250)
        vComp == (voltage * 1000) \div compensation
        v2 == (vComp * vComp) \div 1000
        v3 == (v2 * vComp) \div 1000
        raw == (13342 * v3 - 25586 * v2 + 85739 * vComp) \div 20000
    IN  Constrain(raw, 0, 20000)

\* Vibration magnitude of a sensor event, gravity removed.
VibrationOf(e) == Sqrt(e.ax * e.ax + e.ay * e.ay + e.az * e.az) - 980

\* Mutations of the assessment chain, used to show that the properties
\* below depend on it: vibration tested before the extreme threshold, ...
ClassifyVibrationFirst(t, vib, prev) ==
    IF t <= TDSCLEAN_THRESHOLD /\ ~vib THEN "clean"
    ELSE IF t <= TDSDIRTY_THRESHOLD /\ t > TDSCLEAN_THRESHOLD /\ ~vib THEN "unsafe"
    ELSE IF vib THEN "vibration_detected"
    ELSE IF t >= TDSXTREME_THRESHOLD THEN "extremely_unsafe"
    ELSE prev

\* ... the second rule reaching up to the extreme threshold, ...
ClassifyGapUnsafe(t, vib, prev) ==
    IF t <= TDSCLEAN_THRESHOLD /\ ~vib THEN "clean"
    ELSE IF t < TDSXTREME_THRESHOLD /\ t > TDSCLEAN_THRESHOLD /\ ~vib THEN "unsafe"
    ELSE IF t >= TDSXTREME_THRESHOLD THEN "extremely_unsafe"
    ELSE IF vib THEN "vibration_detected"
    ELSE prev

\* ... and a final else that resets the status.
ClassifyElseUnknown(t, vib, prev) ==
    IF t <= TDSCLEAN_THRESHOLD /\ ~vib THEN "clean"
    ELSE IF t <= TDSDIRTY_THRESHOLD /\ t > TDSCLEAN_THRESHOLD /\ ~vib THEN "unsafe"
    ELSE IF t >= TDSXTREME_THRESHOLD THEN "extremely_unsafe"
    ELSE IF vib THEN "vibration_detected"
    ELSE "unknown"

\* Mutation: the first rule does not look at the vibration flag.
ClassifyCleanIgnoresVibration(t, vib, prev) ==
    IF t <= TDSCLEAN_THRESHOLD THEN "clean"
    ELSE IF t <= TDSDIRTY_THRESHOLD /\ t > TDSCLEAN_THRESHOLD /\ ~vib THEN "unsafe"
    ELSE IF t >= TDSXTREME_THRESHOLD THEN "extremely_unsafe"
    ELSE IF vib THEN "vibration_detected"
    ELSE prev

\* The water quality assessment: an if / else-if chain without a final else.
Classify(t, vib, prev) ==
    IF t <= TDSCLEAN_THRESHOLD /\ ~vib THEN "clean"
    ELSE IF t <= TDSDIRTY_THRESHOLD /\ t > TDSCLEAN_THRESHOLD /\ ~vib THEN "unsafe"
    ELSE IF t >= TDSXTREME_THRESHOLD THEN "extremely_unsafe"
    ELSE IF vib THEN "vibration_detected"
    ELSE prev

\* The simulated pH and turbidity at clock value m with jitter draws r.
PhOf(m, r) == Constrain(700 + (SinMilli(m \div 15) * 80) \div 1000 + r, 600, 900)
TurbidityOf(m, r) == Constrain(200 + (SinMilli(m \div 18) * 150) \div 1000 + r, 10, 1000)

\* delay(ms): the clock advances by ms and wraps.
After(ms) == (millis + ms) % ClockMod

\* The real time since lastReading was set, ms later.  It is real time, not
\* the clock: it does not wrap, and the model stops counting at one wrap
\* period.
RealAfter(ms) == IF sinceLast + ms > ClockMod THEN ClockMod ELSE sinceLast + ms

\* Mutation: the difference taken without the unsigned wrap.
ElapsedSigned == millis - lastReading

\* millis() - lastReading in unsigned arithmetic.
Elapsed == (millis - lastReading) % ClockMod

(***************************************************************************)
(* Initial state: the globals' initialisers, the pins low after reset.     *)
(***************************************************************************)
Init ==
    /\ variant \in {"ble", "serial"}
    /\ pc = "S_start"
    /\ i = 0
    /\ millis = 0
    /\ mpuOk = FALSE
    /\ lastReading = 0
    /\ sinceLast = 0
    /\ pH = 700
    /\ temperature = 220
    /\ tds = 1500
    /\ turbidity = 200
    /\ vibration = 0
    /\ vibrationDetected = FALSE
    /\ waterStatus = "unknown"
    /\ ledGreen = 0 /\ ledYellow = 0 /\ ledRed = 0
    /\ deviceConnected = FALSE
    /\ oldDeviceConnected = FALSE
    /\ bleState = "off"
    /\ waterData = <<>>

(***************************************************************************)
(* setup()                                                                 *)
(***************************************************************************)
\* Where the main task goes once the MPU6050 has been handled.
AfterMpu == IF variant = "ble" THEN "S_ble" ELSE "S_green_on"

\* Mutation: the halting variant too continues after the error flashes.
AfterFlashContinues == "S_green_on"

\* Where the main task goes after the five error flashes.
AfterFlash == IF variant = "ble" THEN "S_halt" ELSE "S_green_on"

\* Where loop() continues after the sampling block.
AfterSampling == IF variant = "ble" THEN "L_send" ELSE "L_delay"

\* Serial.begin(115200); delay(1000);
SetupStart ==
    /\ pc = "S_start"
    /\ millis' = After(1000)
    /\ sinceLast' = RealAfter(1000)
    /\ pc' = "S_leds"
    /\ UNCHANGED <<variant, waterData, i, mpuOk, lastReading, readingVars, ledVars, bleVars>>

\* pinMode x3, then all three LEDs LOW.
SetupLeds ==
    /\ pc = "S_leds"
    /\ ledGreen' = 0 /\ ledYellow' = 0 /\ ledRed' = 0
    /\ pc' = "S_mpu"
    /\ UNCHANGED <<variant, waterData, i, millis, sinceLast, mpuOk, lastReading, readingVars, bleVars>>

\* Wire.begin(); if (!mpu.begin()) ...
SetupMpu ==
    /\ pc = "S_mpu"
    /\ \E ok \in BOOLEAN :
          /\ mpuOk' = ok
          /\ pc' = IF ok THEN AfterMpu ELSE "S_flash_on"
    /\ i' = 0
    /\ UNCHANGED <<variant, waterData, millis, sinceLast, lastReading, readingVars, ledVars, bleVars>>

\* for (i < 5): digitalWrite(LED_RED, HIGH); delay(200);
SetupFlashOn ==
    /\ pc = "S_flash_on"
    /\ IF i < 5
          THEN /\ ledRed' = 1
               /\ millis' = After(200)
               /\ sinceLast' = RealAfter(200)
               /\ pc' = "S_flash_off"
          ELSE /\ pc' = AfterFlash
               /\ UNCHANGED <<ledRed, millis, sinceLast>>
    /\ UNCHANGED <<variant, waterData, i, mpuOk, lastReading, readingVars, ledGreen, ledYellow, bleVars>>

\* digitalWrite(LED_RED, LOW); delay(200); i++
SetupFlashOff ==
    /\ pc = "S_flash_off"
    /\ ledRed' = 0
    /\ millis' = After(200)
    /\ sinceLast' = RealAfter(200)
    /\ i' = i + 1
    /\ pc' = "S_flash_on"
    /\ UNCHANGED <<variant, waterData, mpuOk, lastReading, readingVars, ledGreen, ledYellow, bleVars>>

\* while (1) { Serial.println(...); delay(1000); }   (BLE variant only)
SetupHalt ==
    /\ pc = "S_halt"
    /\ millis' = After(1000)
    /\ sinceLast' = RealAfter(1000)
    /\ UNCHANGED <<variant, waterData, pc, i, mpuOk, lastReading, readingVars, ledVars, bleVars>>

\* BLEDevice::init ... pServer->setCallbacks ... BLEDevice::startAdvertising()
SetupBle ==
    /\ pc = "S_ble"
    /\ bleState' = "advertising"
    /\ pc' = "S_green_on"
    /\ UNCHANGED <<variant, waterData, i, millis, sinceLast, mpuOk, lastReading, readingVars, ledVars,
                   deviceConnected, oldDeviceConnected>>

\* digitalWrite(LED_GREEN, HIGH); delay(1000);
SetupGreenOn ==
    /\ pc = "S_green_on"
    /\ ledGreen' = 1
    /\ millis' = After(1000)
    /\ sinceLast' = RealAfter(1000)
    /\ pc' = "S_green_off"
    /\ UNCHANGED <<variant, waterData, i, mpuOk, lastReading, readingVars, ledYellow, ledRed, bleVars>>

\* digitalWrite(LED_GREEN, LOW); setup() returns and loop() starts.
SetupGreenOff ==
    /\ pc = "S_green_off"
    /\ ledGreen' = 0
    /\ pc' = "L_poll"
    /\ UNCHANGED <<variant, waterData, i, millis, sinceLast, mpuOk, lastReading, readingVars, ledYellow, ledRed, bleVars>>

(***************************************************************************)
(* updateWaterQualityReadings()                                            *)
(***************************************************************************)
\* The motion part with a sensor event e: vibration, flag and temperature.
ReadMotion(e) ==
    /\ vibration' = VibrationOf(e)
    /\ vibrationDetected' = (Abs(VibrationOf(e)) > VIB_THRESHOLD)
    /\ temperature' = e.temp

\* Mutation: the temperature jitter is added without the division by 10.
SimulateMotionUnscaled ==
    /\ \E r \in RandomSamples(-50, 50) : vibration' = r
    /\ vibrationDetected' = FALSE
    /\ \E r \in RandomSamples(-30, 30) : temperature' = 220 + 10 * r

\* The simulated motion values of the serial variant when mpu.begin() fails.
SimulateMotion ==
    /\ \E r \in RandomSamples(-50, 50) : vibration' = r
    /\ vibrationDetected' = FALSE
    /\ \E r \in RandomSamples(-30, 30) : temperature' = 220 + r

\* Motion sensor, TDS conversion and assessment, up to the LED block, with
\* the sensor event drawn from events and the ADC sample from adcs.
UpdateReadFrom(events, adcs) ==
    /\ pc = "U_read"
    /\ IF variant = "ble"
          THEN /\ \E e \in events : ReadMotion(e)
               /\ UNCHANGED mpuOk
          ELSE \E ok \in BOOLEAN :
                  /\ mpuOk' = ok
                  /\ IF ok THEN \E e \in events : ReadMotion(e)
                           ELSE SimulateMotion
    /\ \E adcValue \in adcs : tds' = TdsOf(adcValue)
    /\ waterStatus' = Classify(tds', vibrationDetected', waterStatus)
    /\ pc' = "U_off_green"
    /\ UNCHANGED <<variant, waterData, i, millis, sinceLast, lastReading, pH, turbidity, ledVars, bleVars>>

UpdateRead == UpdateReadFrom(MpuEvents, AdcSamples)

LiveUpdateRead == UpdateReadFrom(LiveMpuEvents, LiveAdcSamples)

\* digitalWrite(LED_GREEN, LOW);
UpdateOffGreen ==
    /\ pc = "U_off_green"
    /\ ledGreen' = 0
    /\ pc' = "U_off_yellow"
    /\ UNCHANGED <<variant, waterData, i, millis, sinceLast, mpuOk, lastReading, readingVars, ledYellow, ledRed, bleVars>>

\* Mutation: the yellow LED is not switched off before the status chain.
UpdateOffYellowSkipped ==
    /\ pc = "U_off_yellow"
    /\ pc' = "U_off_red"
    /\ UNCHANGED <<variant, waterData, i, millis, sinceLast, mpuOk, lastReading, readingVars, ledVars, bleVars>>

\* digitalWrite(LED_YELLOW, LOW);
UpdateOffYellow ==
    /\ pc = "U_off_yellow"
    /\ ledYellow' = 0
    /\ pc' = "U_off_red"
    /\ UNCHANGED <<variant, waterData, i, millis, sinceLast, mpuOk, lastReading, readingVars, ledGreen, ledRed, bleVars>>

\* digitalWrite(LED_RED, LOW);
UpdateOffRed ==
    /\ pc = "U_off_red"
    /\ ledRed' = 0
    /\ pc' = "U_set"
    /\ UNCHANGED <<variant, waterData, i, millis, sinceLast, mpuOk, lastReading, readingVars, ledGreen, ledYellow, bleVars>>

\* Mutations of the status chain: "unsafe" lights the red LED, ...
LedForUnsafeRed(status, g, y, r, m) ==
    IF status = "clean" THEN <<1, y, r>>
    ELSE IF status = "unsafe" THEN <<g, y, 1>>
    ELSE IF status = "extremely_unsafe" THEN <<g, y, 1>>
    ELSE IF status = "vibration_detected" THEN <<g, (m \div 500) % 2, r>>
    ELSE <<g, y, r>>

\* ... and the "extremely_unsafe" branch is missing.
LedForNoExtreme(status, g, y, r, m) ==
    IF status = "clean" THEN <<1, y, r>>
    ELSE IF status = "unsafe" THEN <<g, 1, r>>
    ELSE IF status = "vibration_detected" THEN <<g, (m \div 500) % 2, r>>
    ELSE <<g, y, r>>

\* The LED levels the status chain writes: <<green, yellow, red>>, given the
\* levels before it and the clock.
LedFor(status, g, y, r, m) ==
    IF status = "clean" THEN <<1, y, r>>
    ELSE IF status = "unsafe" THEN <<g, 1, r>>
    ELSE IF status = "extremely_unsafe" THEN <<g, y, 1>>
    ELSE IF status = "vibration_detected" THEN <<g, (m \div 500) % 2, r>>
    ELSE <<g, y, r>>

\* if (waterStatus == "clean") digitalWrite(LED_GREEN, HIGH); else if ...
UpdateSetLed ==
    /\ pc = "U_set"
    /\ LET led == LedFor(waterStatus, ledGreen, ledYellow, ledRed, millis)
       IN  ledGreen' = led[1] /\ ledYellow' = led[2] /\ ledRed' = led[3]
    /\ pc' = "U_sim"
    /\ UNCHANGED <<variant, waterData, i, millis, sinceLast, mpuOk, lastReading, readingVars, bleVars>>

\* Simulated pH and turbidity, clamped; then the serial summary.  The two
\* random() draws come from phJitter and turbidityJitter.
UpdateSimulatedFrom(phJitter, turbidityJitter) ==
    /\ pc = "U_sim"
    /\ \E r \in phJitter : pH' = PhOf(millis, r)
    /\ \E r \in turbidityJitter : turbidity' = TurbidityOf(millis, r)
    /\ pc' = "L_last"
    /\ UNCHANGED <<variant, waterData, i, millis, sinceLast, mpuOk, lastReading, temperature, tds, vibration,
                   vibrationDetected, waterStatus, ledVars, bleVars>>

UpdateSimulated == UpdateSimulatedFrom(RandomSamples(-10, 10), RandomSamples(-30, 30))

LiveUpdateSimulated == UpdateSimulatedFrom(LiveJitter, LiveJitter)

\* What the end of the cycle prints in the serial variant for motion values
\* vib, vd, temp and the rest of the Reading: the summary line and the JSON
\* line, fields in print order; vibration and pH and turbidity with two
\* decimals, temperature with one.
SerialOutput(vib, vd, temp) ==
    [summary |-> <<tds, vib, IF vd THEN "YES" ELSE "NO", temp, waterStatus>>,
     json    |-> <<pH, temp, tds, turbidity, vib,
                   IF vd THEN "true" ELSE "false", waterStatus>>]

(***************************************************************************)
(* loop()                                                                  *)
(***************************************************************************)
\* Mutation: the period test is >= instead of >.
LoopPollAtLeast ==
    /\ pc = "L_poll"
    /\ pc' = IF Elapsed >= 3000 THEN "U_read" ELSE AfterSampling
    /\ UNCHANGED <<variant, waterData, i, millis, sinceLast, mpuOk, lastReading, readingVars, ledVars, bleVars>>

\* if (millis() - lastReading > 3000) updateWaterQualityReadings();
LoopPoll ==
    /\ pc = "L_poll"
    /\ pc' = IF Elapsed > 3000 THEN "U_read" ELSE AfterSampling
    /\ UNCHANGED <<variant, waterData, i, millis, sinceLast, mpuOk, lastReading, readingVars, ledVars, bleVars>>

\* lastReading = millis();
LoopLast ==
    /\ pc = "L_last"
    /\ lastReading' = millis
    /\ sinceLast' = 0
    /\ pc' = AfterSampling
    /\ UNCHANGED <<variant, waterData, i, millis, mpuOk, readingVars, ledVars, bleVars>>

\* if (deviceConnected) {
LoopSend ==
    /\ pc = "L_send"
    /\ pc' = IF deviceConnected THEN "L_setValue" ELSE "L_recon"
    /\ UNCHANGED <<variant, waterData, i, millis, sinceLast, mpuOk, lastReading, readingVars, ledVars, bleVars>>

\* Mutation: the record is built from the initialisers of the globals.
generateDefaultsJSON ==
    [pH |-> 700, temperature |-> 220, tds |-> 1500, turbidity |-> 200,
     vibration |-> 0, vibrationDetected |-> "false", waterStatus |-> "unknown",
     timestamp |-> millis, deviceId |-> "ESP32-WaterSensor", status |-> "active"]

\* generateWaterQualityJSON(): the record of the Reading, pH, turbidity and
\* vibration with two decimals, temperature and tds with one, and the clock.
generateWaterQualityJSON ==
    [pH |-> pH, temperature |-> temperature, tds |-> tds, turbidity |-> turbidity,
     vibration |-> vibration,
     vibrationDetected |-> IF vibrationDetected THEN "true" ELSE "false",
     waterStatus |-> waterStatus,
     timestamp |-> millis, deviceId |-> "ESP32-WaterSensor", status |-> "active"]

\* waterData = generateWaterQualityJSON(); pCharacteristic->setValue(waterData);
LoopSetValue ==
    /\ pc = "L_setValue"
    /\ waterData' = <<generateWaterQualityJSON>>
    /\ pc' = "L_notify"
    /\ UNCHANGED <<variant, i, millis, sinceLast, mpuOk, lastReading, readingVars, ledVars, bleVars>>

\* pCharacteristic->notify(); Serial.println("Sent: " + waterData); }
LoopNotify ==
    /\ pc = "L_notify"
    /\ waterData' = <<>>
    /\ pc' = "L_recon"
    /\ UNCHANGED <<variant, i, millis, sinceLast, mpuOk, lastReading, readingVars, ledVars, bleVars>>

\* if (!deviceConnected && oldDeviceConnected) {
LoopRecon ==
    /\ pc = "L_recon"
    /\ pc' = IF ~deviceConnected /\ oldDeviceConnected THEN "L_settle" ELSE "L_recon2"
    /\ UNCHANGED <<variant, waterData, i, millis, sinceLast, mpuOk, lastReading, readingVars, ledVars, bleVars>>

\* delay(500);
LoopSettle ==
    /\ pc = "L_settle"
    /\ millis' = After(500)
    /\ sinceLast' = RealAfter(500)
    /\ pc' = "L_adv"
    /\ UNCHANGED <<variant, waterData, i, mpuOk, lastReading, readingVars, ledVars, bleVars>>

\* pServer->startAdvertising();
LoopAdvertise ==
    /\ pc = "L_adv"
    /\ bleState' = IF bleState = "connected" THEN "connected" ELSE "advertising"
    /\ pc' = "L_old"
    /\ UNCHANGED <<variant, waterData, i, millis, sinceLast, mpuOk, lastReading, readingVars, ledVars,
                   deviceConnected, oldDeviceConnected>>

\* oldDeviceConnected = deviceConnected; }
LoopOld ==
    /\ pc = "L_old"
    /\ oldDeviceConnected' = deviceConnected
    /\ pc' = "L_recon2"
    /\ UNCHANGED <<variant, waterData, i, millis, sinceLast, mpuOk, lastReading, readingVars, ledVars,
                   deviceConnected, bleState>>

\* if (deviceConnected && !oldDeviceConnected) {
LoopRecon2 ==
    /\ pc = "L_recon2"
    /\ pc' = IF deviceConnected /\ ~oldDeviceConnected THEN "L_old2" ELSE "L_delay"
    /\ UNCHANGED <<variant, waterData, i, millis, sinceLast, mpuOk, lastReading, readingVars, ledVars, bleVars>>

\* oldDeviceConnected = deviceConnected; }
LoopOld2 ==
    /\ pc = "L_old2"
    /\ oldDeviceConnected' = deviceConnected
    /\ pc' = "L_delay"
    /\ UNCHANGED <<variant, waterData, i, millis, sinceLast, mpuOk, lastReading, readingVars, ledVars,
                   deviceConnected, bleState>>

\* delay(1000); loop() returns and is called again.
LoopDelay ==
    /\ pc = "L_delay"
    /\ millis' = After(1000)
    /\ sinceLast' = RealAfter(1000)
    /\ pc' = "L_poll"
    /\ UNCHANGED <<variant, waterData, i, mpuOk, lastReading, readingVars, ledVars, bleVars>>

(***************************************************************************)
(* MyServerCallbacks, run by the BLE task at any point of the main task.   *)
(* A central can connect while the server advertises; the connection ends  *)
(* the advertising, and a disconnect leaves the server idle.               *)
(***************************************************************************)
onConnect ==
    /\ bleState = "advertising"
    /\ bleState' = "connected"
    /\ deviceConnected' = TRUE
    /\ UNCHANGED <<variant, waterData, pc, i, millis, sinceLast, mpuOk, lastReading, readingVars, ledVars,
                   oldDeviceConnected>>

\* Mutation: the disconnect callback also resets the status.
onDisconnectResets ==
    /\ bleState = "connected"
    /\ bleState' = "idle"
    /\ deviceConnected' = FALSE
    /\ waterStatus' = "unknown"
    /\ UNCHANGED <<variant, waterData, pc, i, millis, sinceLast, mpuOk, lastReading, pH, temperature, tds,
                   turbidity, vibration, vibrationDetected, ledVars, oldDeviceConnected>>

onDisconnect ==
    /\ bleState = "connected"
    /\ bleState' = "idle"
    /\ deviceConnected' = FALSE
    /\ UNCHANGED <<variant, waterData, pc, i, millis, sinceLast, mpuOk, lastReading, readingVars, ledVars,
                   oldDeviceConnected>>

(***************************************************************************)
(* Specifications.                                                         *)
(***************************************************************************)
\* The steps of the Arduino main task that draw no sensor input.
MainPlain ==
    \/ SetupStart \/ SetupLeds \/ SetupMpu \/ SetupFlashOn \/ SetupFlashOff
    \/ SetupHalt \/ SetupBle \/ SetupGreenOn \/ SetupGreenOff
    \/ UpdateOffGreen \/ UpdateOffYellow \/ UpdateOffRed \/ UpdateSetLed
    \/ LoopPoll \/ LoopLast \/ LoopSend \/ LoopSetValue \/ LoopNotify
    \/ LoopRecon \/ LoopSettle \/ LoopAdvertise \/ LoopOld \/ LoopRecon2
    \/ LoopOld2 \/ LoopDelay

\* The steps of the Arduino main task.
Main == MainPlain \/ UpdateRead \/ UpdateSimulated

Next == Main \/ onConnect \/ onDisconnect

Spec == Init /\ [][Next]_vars

\* The same program over the narrower samples.
LiveMain == MainPlain \/ LiveUpdateRead \/ LiveUpdateSimulated

LiveNext == LiveMain \/ onConnect \/ onDisconnect

\* The main task always runs on: the scheduler keeps calling loop(), and
\* setup() and loop() block only in delay(), which returns.  The BLE
\* callbacks depend on the central and get no fairness.
FairSpec == Init /\ [][LiveNext]_vars /\ WF_vars(LiveMain)

(***************************************************************************)
(* The conversions of one sampling cycle over their whole input ranges.    *)
(***************************************************************************)
\* Clock values, half a second apart as loop() polls, at which a cycle is
\* taken: 3500 ms is the first cycle after setup(), and the last sample lies
\* beyond one period of the slower sine (2*pi*18000 ms).
MaxClockSample == 240
ClockSamples == {3500 + 500 * k : k \in 0..MaxClockSample}

\* A cycle is entered (the first one, on the defaults), or a cycle that read
\* the sensor at rest and a sample between the thresholds has got to the
\* simulated part at clock value millis, 3500 ms after the cycle before it.
RangeInit ==
    /\ variant \in {"ble", "serial"}
    /\ pc \in {"U_read", "U_sim"}
    /\ i = 0
    /\ mpuOk = TRUE
    /\ deviceConnected = FALSE
    /\ oldDeviceConnected = FALSE
    /\ bleState = IF variant = "ble" THEN "advertising" ELSE "off"
    /\ waterData = <<>>
    /\ ledGreen = 0 /\ ledYellow = 0 /\ ledRed = 0
    /\ waterStatus = "unknown"
    /\ vibration = 0
    /\ vibrationDetected = FALSE
    /\ sinceLast = 3500
    /\ IF pc = "U_read"
          THEN /\ millis = 3500
               /\ lastReading = 0
               /\ pH = 700 /\ turbidity = 200
               /\ temperature = 220
               /\ tds = 1500
          ELSE /\ millis \in ClockSamples
               /\ lastReading = millis - 3500
               /\ pH = (IF lastReading = 0 THEN 700 ELSE PhOf(lastReading, 0))
               /\ turbidity = (IF lastReading = 0 THEN 200 ELSE TurbidityOf(lastReading, 0))
               /\ temperature = EventAtRest.temp
               /\ tds = TdsOf(1500)

\* The sensor part of the cycle with any 12-bit ADC sample.
WideUpdateRead == UpdateReadFrom(MpuEvents, 0..ADC_RES)

\* The simulated part of the cycle with any value random() can return.
WideUpdateSimulated == UpdateSimulatedFrom(-10..9, -30..29)

RangeNext == WideUpdateRead \/ WideUpdateSimulated

RangeSpec == RangeInit /\ [][RangeNext]_vars

(***************************************************************************)
(* Properties.                                                             *)
(***************************************************************************)
\* The step of a sampling cycle that reads the sensors and assigns the status.
ClassifyStep == pc = "U_read" /\ pc' = "U_off_green"

\* The positions of loop() outside updateWaterQualityReadings().
LoopPcs == {"L_poll", "L_last", "L_send", "L_setValue", "L_notify", "L_recon",
            "L_settle", "L_adv", "L_old", "L_recon2", "L_old2", "L_delay"}

InGap(t) == t > TDSDIRTY_THRESHOLD /\ t < TDSXTREME_THRESHOLD

LedsOn == ledGreen + ledYellow + ledRed

\* C1: in every sampling cycle the status is assigned from the cycle's clamped
\* tds and vibration flag by first match: tds <= 300 and no vibration gives
\* clean; 300 < tds <= 400 and no vibration gives unsafe; tds >= 500 gives
\* extremely_unsafe, vibration or not; otherwise vibration gives
\* vibration_detected.  Nothing else enters the result.
C1_FirstMatch ==
    [][ClassifyStep =>
         /\ (tds' <= 3000 /\ ~vibrationDetected') => waterStatus' = "clean"
         /\ (tds' > 3000 /\ tds' <= 4000 /\ ~vibrationDetected') => waterStatus' = "unsafe"
         /\ (tds' >= 5000) => waterStatus' = "extremely_unsafe"
         /\ (tds' < 5000 /\ vibrationDetected') => waterStatus' = "vibration_detected"
      ]_vars

\* C1 witness: a cycle with tds >= 500 and vibration has assigned
\* extremely_unsafe.
C1_Witness ==
    /\ pc = "U_off_green"
    /\ tds >= 5000 /\ vibrationDetected
    /\ waterStatus = "extremely_unsafe"

\* C2: a sampling cycle with 400 < tds < 500 and no vibration leaves the
\* status as it was before the cycle, whatever it was, cycle after cycle.
C2_GapRetains ==
    [][(ClassifyStep /\ InGap(tds') /\ ~vibrationDetected') => waterStatus' = waterStatus]_vars

\* C2 witness: a second cycle in the gap has run and the status is still the
\* startup default.
C2_Witness ==
    /\ pc = "U_off_green"
    /\ lastReading # 0
    /\ InGap(tds) /\ ~vibrationDetected
    /\ waterStatus = "unknown"

\* C3: the status is always one of the five values, and once it is no longer
\* unknown it never becomes unknown again.
C3_UnknownOnlyAtStart ==
    /\ [](waterStatus \in Statuses)
    /\ [][waterStatus # "unknown" => waterStatus' # "unknown"]_vars

\* C3 witness: a status assigned earlier has survived a cycle that matched
\* no rule.
C3_Witness ==
    /\ pc = "L_last"
    /\ InGap(tds) /\ ~vibrationDetected
    /\ waterStatus = "clean"

\* C4: after every subscriber disconnect the main loop eventually restarts
\* advertising: the server never stays idle (disconnected and not advertising)
\* for ever.
C4_Readvertises == (bleState = "idle") ~> (bleState = "advertising")

\* C5: setValue and notify are invoked only while a subscriber is connected,
\* also when the disconnect callback runs after the loop's connection check.
C5_PublishOnlyConnected == pc \in {"L_setValue", "L_notify"} => bleState = "connected"

\* C6: the connect and disconnect callbacks leave the Reading, lastReading,
\* oldDeviceConnected and the LEDs unchanged; of the program's variables they
\* write deviceConnected only.
C6_CallbacksFrame ==
    [][(onConnect \/ onDisconnect) =>
         UNCHANGED <<readingVars, lastReading, oldDeviceConnected, ledVars>>]_vars

\* C6 witness: a subscriber has connected and disconnected after a sampling
\* cycle assigned a status.
C6_Witness ==
    /\ bleState = "idle"
    /\ ~deviceConnected
    /\ waterStatus = "unsafe"
    /\ ledYellow = 1

\* C7: while the status is vibration_detected the yellow LED blinks at 1 Hz:
\* at every instant its level is (millis / 500) mod 2, green and red off.
C7_YellowBlinks ==
    (pc \in LoopPcs /\ waterStatus = "vibration_detected") =>
        /\ ledYellow = (millis \div 500) % 2
        /\ ledGreen = 0 /\ ledRed = 0

\* C8: from the end of a sampling cycle until the next one begins the LEDs
\* match the status, retained or assigned: clean has only green on, unsafe
\* only yellow, extremely_unsafe only red, and unknown has all three off.
C8_SteadyLedMatches ==
    pc \in LoopPcs =>
        /\ waterStatus = "clean" => <<ledGreen, ledYellow, ledRed>> = <<1, 0, 0>>
        /\ waterStatus = "unsafe" => <<ledGreen, ledYellow, ledRed>> = <<0, 1, 0>>
        /\ waterStatus = "extremely_unsafe" => <<ledGreen, ledYellow, ledRed>> = <<0, 0, 1>>
        /\ waterStatus = "unknown" => <<ledGreen, ledYellow, ledRed>> = <<0, 0, 0>>

\* C8 witness: between two cycles the yellow LED shows an unsafe status that
\* the last cycle, with tds in the gap, retained.
C8_Witness ==
    /\ pc = "L_delay"
    /\ InGap(tds) /\ ~vibrationDetected
    /\ waterStatus = "unsafe"
    /\ <<ledGreen, ledYellow, ledRed>> = <<0, 1, 0>>

\* C9: at every instant from power-on, in setup, in the flashes and inside
\* and between sampling cycles, at most one of the three LEDs is on.
C9_AtMostOneLed == LedsOn <= 1

\* C9 witness: inside a cycle that turns unsafe into clean, green is already
\* written low and yellow is still on.
C9_Witness ==
    /\ pc = "U_off_yellow"
    /\ waterStatus = "clean"
    /\ ledYellow = 1

\* Whether a channel counts as on or blinking: its pin is high, or it is the
\* yellow channel under the time-modulo directive of vibration_detected.
OnOrBlinking(level, isYellow) ==
    level = 1 \/ (isYellow /\ waterStatus = "vibration_detected")

\* C10 as stated: after a sampling cycle, whatever the status, exactly one
\* LED channel is on (or blinking) and the other two are off.
C10_ExactlyOneLed ==
    pc = "L_last" =>
        \/ OnOrBlinking(ledGreen, FALSE) /\ ledYellow = 0 /\ ledRed = 0
        \/ OnOrBlinking(ledYellow, TRUE) /\ ledGreen = 0 /\ ledRed = 0
        \/ OnOrBlinking(ledRed, FALSE) /\ ledGreen = 0 /\ ledYellow = 0

\* C10 amended: after a sampling cycle, clean, unsafe and extremely_unsafe
\* have exactly one LED on; vibration_detected has green and red off, yellow
\* being the only channel driven; unknown has all three LEDs off.
C10_OneLedUnlessUnknown ==
    pc = "L_last" =>
        /\ waterStatus \in {"clean", "unsafe", "extremely_unsafe"} => LedsOn = 1
        /\ waterStatus = "vibration_detected" => (ledGreen = 0 /\ ledRed = 0)
        /\ waterStatus = "unknown" => LedsOn = 0

\* C10 witness: the first cycle matched no rule, the status is still unknown
\* and no LED is on.
C10_Witness ==
    /\ pc = "L_last"
    /\ waterStatus = "unknown"
    /\ LedsOn = 0

\* The positions inside updateWaterQualityReadings().
CyclePcs == {"U_read", "U_off_green", "U_off_yellow", "U_off_red", "U_set", "U_sim"}

\* C11: a loop iteration runs a sampling cycle exactly when its poll finds
\* millis() - lastReading > 3000; the cycle runs to completion before the
\* loop goes on and lastReading is then set to the clock; so a cycle starts
\* more than 3000 ms of real time after lastReading was set, and while the
\* loop runs sampling cycles recur for ever.
C11_SamplingSchedule ==
    /\ [][(pc = "L_poll" /\ pc' # pc) =>
            (pc' = "U_read" <=> (millis - lastReading) % ClockMod > 3000)]_vars
    /\ [][(pc' = "U_read" /\ pc # "U_read") => pc = "L_poll"]_vars
    /\ [][(pc \in CyclePcs) => (pc' \in CyclePcs \/ pc' = "L_last")]_vars
    /\ [][(pc = "L_last" /\ pc' # pc) => lastReading' = millis']_vars
    /\ [](pc \in CyclePcs => sinceLast > 3000)
    /\ (pc \in LoopPcs) ~> (pc = "U_read")

\* C11 witness: a cycle starts after an earlier one has set lastReading.
C11_Witness ==
    /\ pc = "U_read"
    /\ lastReading # 0
    /\ sinceLast > 3000

\* The positions of setup() up to and including the sensor probe.
ProbePcs == {"S_start", "S_leds", "S_mpu"}

\* C12: in the BLE variant, once the probe of the motion sensor has failed,
\* the main task is in the five-flash loop or in the endless stall; it gets
\* to the stall with exactly five flashes done and never leaves it; no
\* sampling cycle runs (lastReading and the Reading keep their initial
\* values, status unknown), the BLE stack is never started, nothing is
\* published, green and yellow stay off and red is off from the end of the
\* flash sequence on.
C12_HaltOnMissingSensor ==
    /\ []((variant = "ble" /\ ~mpuOk /\ pc \notin ProbePcs) =>
            /\ pc \in {"S_flash_on", "S_flash_off", "S_halt"}
            /\ waterStatus = "unknown"
            /\ tds = 1500 /\ pH = 700 /\ temperature = 220 /\ turbidity = 200
            /\ lastReading = 0
            /\ bleState = "off"
            /\ ~deviceConnected
            /\ ledGreen = 0 /\ ledYellow = 0
            /\ (ledRed = 1 <=> pc = "S_flash_off")
            /\ (pc = "S_halt" => i = 5)
            /\ i \in 0..5)
    /\ [][(variant = "ble" /\ pc = "S_halt") => pc' = "S_halt"]_vars
    /\ (variant = "ble" /\ ~mpuOk /\ pc = "S_flash_on") ~> [](pc = "S_halt" /\ LedsOn = 0)

\* C12 witness: the stall, reached after five flashes, with time going by.
C12_Witness ==
    /\ variant = "ble"
    /\ pc = "S_halt"
    /\ ~mpuOk
    /\ i = 5
    /\ millis > 3000 + 2000
    /\ LedsOn = 0

\* A cycle of the serial variant whose mpu.begin() failed, past its first
\* step.
FallbackCycle ==
    /\ variant = "serial"
    /\ ~mpuOk
    /\ pc \in (CyclePcs \ {"U_read"}) \cup {"L_last"}

\* C13: in the serial variant a cycle whose sensor probe fails leaves
\* vibrationDetected false, vibration within [-0.5, 0.5] m/s^2 and
\* temperature within [19.0, 25.0] C; the same step converts an ADC sample to
\* tds and classifies it, the LED block then drives the LEDs from the
\* status; and whatever the probes say the serial variant reaches a sampling
\* cycle again and again.
C13_FallbackCycle ==
    /\ [](FallbackCycle =>
            /\ ~vibrationDetected
            /\ vibration \in -50..50
            /\ temperature \in 190..250)
    /\ [][(ClassifyStep /\ variant = "serial" /\ ~mpuOk') =>
            /\ \E adcValue \in LiveAdcSamples : tds' = TdsOf(adcValue)
            /\ waterStatus' = Classify(tds', FALSE, waterStatus)]_vars
    /\ []((FallbackCycle /\ pc \in {"U_sim", "L_last"}) =>
            <<ledGreen, ledYellow, ledRed>> = LedFor(waterStatus, 0, 0, 0, millis))
    /\ [][(FallbackCycle /\ pc # "L_last") => pc' \in CyclePcs \cup {"L_last"}]_vars
    /\ (variant = "serial") ~> (pc = "U_read")
    /\ (variant = "serial" /\ FallbackCycle /\ pc = "L_last") ~> (pc = "U_read")

\* C13 witness: a fallback cycle has classified a clean sample and lit the
\* green LED, in a run whose sensor was missing at startup or later.
C13_Witness ==
    /\ FallbackCycle
    /\ pc = "L_last"
    /\ lastReading # 0
    /\ waterStatus = "clean"
    /\ ledGreen = 1
    /\ temperature # 220

\* C14: the Reading always has 0 <= tds <= 2000 ppm, 6.0 <= pH <= 9.0 and
\* 0.1 <= turbidity <= 10.0, on the defaults and after the conversions of a
\* cycle for every ADC sample in 0..4095, every sampled clock value and
\* every jitter draw; a sample whose conversion exceeds 2000 ppm is stored
\* as 2000 ppm, and the cycle goes on to its next step.
C14_ReadingRanges ==
    /\ [](tds \in 0..20000 /\ pH \in 600..900 /\ turbidity \in 10..1000)
    /\ [][(pc = "U_read" /\ pc' # pc) =>
            /\ pc' = "U_off_green"
            /\ \E adcValue \in 0..ADC_RES :
                  tds' = Constrain(TdsOfUnclamped(adcValue), 0, 20000)]_vars
    /\ [][(pc = "U_sim" /\ pc' # pc) => pc' = "L_last"]_vars

\* C14 witness: the full-scale ADC sample, whose conversion is above the
\* range, is stored as 2000 ppm.
C14_Witness ==
    /\ pc = "U_off_green"
    /\ TdsOfUnclamped(ADC_RES) > 20000
    /\ tds = 20000
    /\ waterStatus = "extremely_unsafe"

\* Events a working MPU6050 can hand back on a still device: gravity alone
\* along z, between 9.30 and 10.30 m/s^2, die temperature 19.0 to 25.0 C.
StillEvents ==
    {[ax |-> 0, ay |-> 0, az |-> z, temp |-> t] : z \in 930..1030, t \in 190..250}

\* C15: when a cycle of the serial variant that used the simulated motion
\* values has ended, what it printed differs from what a cycle with a real
\* sensor event would have printed, whatever that event is, even one with
\* the same vibration and temperature.
C15_FallbackTagged ==
    (variant = "serial" /\ pc = "L_last" /\ ~mpuOk) =>
        \A e \in StillEvents :
            SerialOutput(VibrationOf(e), Abs(VibrationOf(e)) > VIB_THRESHOLD, e.temp)
                # SerialOutput(vibration, vibrationDetected, temperature)

\* The positions of loop()'s publish block.
PublishPcs == {"L_send", "L_setValue", "L_notify"}

\* The Reading holds the initialisers of the globals.
ReadingIsDefault ==
    /\ pH = 700 /\ temperature = 220 /\ tds = 1500 /\ turbidity = 200
    /\ vibration = 0 /\ ~vibrationDetected /\ waterStatus = "unknown"

\* C16: the record handed to notify() has, field by field, the Reading as
\* it stands; the Reading is written only by steps inside a sampling cycle
\* and holds the defaults until the first one, so the record is the Reading
\* left by the last completed cycle (or the defaults) and never a mix; and
\* the publish block is entered only from the poll or from the end of a
\* cycle, and no cycle starts from inside it.
C16_ConsistentSnapshot ==
    /\ [](pc = "L_notify" =>
            /\ Len(waterData) = 1
            /\ waterData[1].pH = pH
            /\ waterData[1].temperature = temperature
            /\ waterData[1].tds = tds
            /\ waterData[1].turbidity = turbidity
            /\ waterData[1].vibration = vibration
            /\ waterData[1].vibrationDetected = (IF vibrationDetected THEN "true" ELSE "false")
            /\ waterData[1].waterStatus = waterStatus)
    /\ [](pc # "L_notify" => waterData = <<>>)
    /\ [][readingVars' # readingVars => (pc \in CyclePcs /\ pc' \in CyclePcs \cup {"L_last"})]_vars
    /\ []((pc \notin CyclePcs \cup LoopPcs) => ReadingIsDefault)
    /\ [][(pc' = "L_send" /\ pc # "L_send") => pc \in {"L_poll", "L_last"}]_vars
    /\ [][(pc \in PublishPcs) => pc' \in PublishPcs \cup {"L_recon"}]_vars
    /\ [][(pc' \in PublishPcs) => variant = "ble"]_vars

\* C16 witness: a record is about to be notified after a cycle that found
\* clean water, in an iteration that ran the cycle before the publish.
C16_Witness ==
    /\ pc = "L_notify"
    /\ sinceLast = 0
    /\ waterStatus = "clean"
    /\ Len(waterData) = 1
    /\ waterData[1].waterStatus = "clean"
    /\ waterData[1].tds = tds

\* The status st agrees with the rule that assigns it, for tds t and
\* vibration flag vd.
StatusAgrees(st, t, vd) ==
    /\ st = "clean" => (t <= 3000 /\ ~vd)
    /\ st = "unsafe" => (t > 3000 /\ t <= 4000 /\ ~vd)
    /\ st = "extremely_unsafe" => t >= 5000
    /\ st = "vibration_detected" => vd

\* C17 as stated: after every sampling cycle the status agrees with the tds
\* and the vibration flag of the Reading, and so does every published record.
C17_SelfConsistent ==
    /\ pc = "L_last" => StatusAgrees(waterStatus, tds, vibrationDetected)
    /\ pc = "L_notify" =>
            StatusAgrees(waterData[1].waterStatus, waterData[1].tds,
                         waterData[1].vibrationDetected = "true")

\* C17 amended: the status agrees with the tds and the vibration flag after
\* every cycle in which a rule of the assessment matched, that is every
\* cycle but those with 400 < tds < 500 and no vibration, and in every
\* record published from such a Reading.
C17_ConsistentWhenMatched ==
    /\ (pc = "L_last" /\ ~(InGap(tds) /\ ~vibrationDetected)) =>
            StatusAgrees(waterStatus, tds, vibrationDetected)
    /\ (pc = "L_notify" /\ lastReading # 0 /\ ~(InGap(tds) /\ ~vibrationDetected)) =>
            StatusAgrees(waterData[1].waterStatus, waterData[1].tds,
                         waterData[1].vibrationDetected = "true")

\* C17 witness: a record is published after a cycle that detected vibration
\* below the extreme threshold.
C17_Witness ==
    /\ pc = "L_notify"
    /\ lastReading # 0
    /\ tds < 5000 /\ vibrationDetected
    /\ waterData[1].waterStatus = "vibration_detected"
    /\ waterData[1].vibrationDetected = "true"

\* C18: the elapsed time the poll computes, the unsigned difference
\* millis() - lastReading, equals the real time gone by since lastReading
\* was set, also when the clock has wrapped in between (millis below
\* lastReading); so the poll starts a cycle exactly when more than 3000 ms
\* have really gone by, neither earlier nor never, wrap or no wrap.
C18_WrapSafe ==
    /\ [](pc \in LoopPcs \cup CyclePcs => Elapsed = sinceLast)
    /\ [][(pc = "L_poll" /\ pc' # pc) => (pc' = "U_read" <=> sinceLast > 3000)]_vars
    /\ [](pc \in LoopPcs => sinceLast <= 3000 + 2000)

\* C18 witness: a cycle starts with the clock wrapped since lastReading was
\* set.
C18_Witness ==
    /\ pc = "U_read"
    /\ millis < lastReading
    /\ sinceLast > 3000

====
